---- MODULE Spec2Model ----
(***************************************************************************)
(* A model of toutago-datamapper's orchestration core: the adapter         *)
(* registry (engine/registry.go), the mapper's verbs and source            *)
(* resolution (engine/mapper.go) and the configuration parser's            *)
(* load/validate path (config/parser.go).                                  *)
(*                                                                         *)
(* Threads are goroutines calling the public API.  The registry's RWMutex  *)
(* is modelled by its writer (mu): a read section (RLock .. RUnlock) has   *)
(* no blocking call inside it and is one step that needs mu = 0; the write *)
(* section of GetAdapter is split at the adapter's Connect, the one        *)
(* blocking call made while the lock is held.                              *)
(*                                                                         *)
(* Adapters, factories and the file system are the environment: whether a  *)
(* factory, Connect, Close or a data operation fails is chosen with \E.    *)
(***************************************************************************)
EXTENDS Integers, Sequences, FiniteSets, TLC

\* ------------------------------------------------------------------ bounds
NumThreads == 2
MaxOps == 4
MaxRecords == 1
MaxChain == 2
MaxItems == 2

Threads == 1..NumThreads
SourceIDs == {"A", "B"}
AdapterTypes == {"mock"}
FactoryIDs == {"f1", "f2"}
Connections == {"c1", "c2"}
Namespaces == {"n1", "n2"}
MappingIDs == {"m"}
Verbs == {"Fetch", "FetchMulti", "Insert", "Update", "Delete"}
OpNames == {"fetch", "insert", "update", "delete"}
ActionNames == {"act"}

\* config.Source as the registry sees it (Options travel with the descriptor)
SourceDescs == [Adapter : AdapterTypes, Connection : Connections]
\* config.Source{}
NoSrc == [Adapter |-> "", Connection |-> ""]

\* ------------------------------------------------------------------ errors
\* A Go error is modelled by its chain of messages, outermost first:
\* fmt.Errorf("...: %w", err) puts one message in front of err's chain,
\* fmt.Errorf without %w is a chain of one, nil is the empty chain.
Nil == << >>
Wrap(msg, err) == <<msg>> \o err
ErrNotFound == <<"NOT_FOUND">>
AdapterFailure == <<"adapter failure">>

VARIABLES
    factories,    \* ar.factories: adapter type -> factory ("" = none)
    instances,    \* ar.instances: sourceID -> instance id (0 = absent)
    mu,           \* ar.mu: the thread holding the write lock, 0 = free
    adapters,     \* every factory invocation so far and the instance it made
    pc,           \* each thread's position
    call,         \* each thread's call in progress
    ops,          \* calls started so far (bounded by MaxOps)
    ev,           \* the call that returned in the last step
    configs,      \* parser.configs: namespace -> Config (NoCfg = not loaded)
    mapper,       \* "none"; once a Mapper exists, "owned" when NewMapper made
                  \* its parser and "shared" when the caller passed it in
    mapperClosed, \* history: Mapper.Close has returned
    files,        \* the filesystem adapter's directory: record id -> content
    pm            \* the PropertyMapper call under study and what it returned

vars == <<factories, instances, mu, adapters, pc, call, ops, ev,
          configs, mapper, mapperClosed, files, pm>>

\* the parser and the mapper, which the registry's own operations leave alone
mapperVars == <<configs, mapper, mapperClosed, files, pm>>

\* call: verb the public call in progress, sid/src the sourceID and Source it
\* resolved (or was given), inst the adapter it obtained, ns/m the mapping
\* it names, late whether it began after Mapper.Close, tries how often it
\* has called GetAdapter and calls how often the adapter's data operation,
\* key the record id a Fetch asks for
NoCall == [verb |-> "", sid |-> "", src |-> NoSrc, inst |-> 0,
           ns |-> "", m |-> "", late |-> FALSE, tries |-> 0, calls |-> 0,
           key |-> 0]
NoInstances == [s \in SourceIDs |-> 0]

\* ev: op/sid the call and its sourceID, inst/err what it returned, via the
\* return statement taken, pre the cache when the returning step began,
\* closed the instances whose Close it invoked, ids the sourceIDs it reports
\* (Close: those named in the aggregated error; ListInstances: the result)
\* (verbs: ns the namespace named, src the Source resolved, called whether
\* the adapter's data operation was invoked and out what it returned, late,
\* tries and calls as in call, input the argument, action the custom action
\* Execute was asked for, key the record id a Fetch asked for, store the
\* adapter's directory when the returning step began; Register: adapter and
\* factory its arguments; LoadFile: loaded the one-element list holding the
\* parser's configurations when the call began)
\* what an adapter's data operation returned: its error, and for Fetch the
\* number of records and what the first one is ("ok", "notmap": not a
\* map[string]interface{}, "maperr": a map that MapToObject rejects)
NoOut == [err |-> Nil, n |-> 0, rec |-> ""]

\* a value a caller passes or an adapter returns: k what it is ("struct" a
\* struct the mappings fit, "badstruct" a struct lacking a mapped field,
\* "scalar", "map" a map[string]interface{}, "slice" a slice as one value,
\* "nilmap" a nil map), id which one
Item(k, i) == [k |-> k, id |-> i]

\* record ids the callers use, and the adapter's directory with no file in it
\* (a file is the record written to it, NoFile when the path does not exist)
RecordIDs == 1..MaxItems
NoFile == [id |-> 0, val |-> "", fields |-> {}]
NoFiles == [i \in RecordIDs |-> NoFile]

\* no argument looked at
NoInput == [shape |-> "", items |-> << >>]

\* what a verb did with its arguments: sent the list it handed to the
\* adapter's data operation, result the caller's output collection when the
\* verb returned, ran the after-actions it executed
NoData == [sent |-> << >>, result |-> << >>, ran |-> << >>]

NoEv == [op |-> "", sid |-> "", inst |-> 0, err |-> Nil, via |-> "",
         pre |-> NoInstances, closed |-> {}, ids |-> {},
         ns |-> "", src |-> NoSrc, called |-> FALSE, late |-> FALSE,
         out |-> NoOut, tries |-> 0, calls |-> 0, input |-> NoInput,
         action |-> "", data |-> NoData, key |-> 0, store |-> NoFiles,
         adapter |-> "", factory |-> "", loaded |-> << >>]

Event(op, sid, inst, err, via) ==
    [op |-> op, sid |-> sid, inst |-> inst, err |-> err, via |-> via,
     pre |-> instances, closed |-> {}, ids |-> {},
     ns |-> "", src |-> NoSrc, called |-> FALSE, late |-> FALSE,
     out |-> NoOut, tries |-> 0, calls |-> 0, input |-> NoInput,
     action |-> "", data |-> NoData, key |-> 0, store |-> files,
     adapter |-> "", factory |-> "", loaded |-> << >>]

\* the instance ids held in a cache
Cached(insts) == {insts[s] : s \in {x \in SourceIDs : insts[x] # 0}}
CachedIDs(insts) == {s \in SourceIDs : insts[s] # 0}

\* an empty map
EmptyMap == [x \in {} |-> 0]

\* no configuration loaded for a namespace
NoCfg == [Namespace |-> "", Version |-> "", Sources |-> EmptyMap,
          Mappings |-> EmptyMap]

\* no PropertyMapper call made
NoPM == [stage |-> "start", obj |-> 0, mappings |-> << >>, data |-> 0,
         prior |-> 0, err |-> << >>, target |-> 0]

\* NewAdapterRegistry
EmptyRegistry ==
    /\ factories = [a \in AdapterTypes |-> ""]
    /\ instances = NoInstances
    /\ mu = 0
    /\ adapters = << >>

Init ==
    /\ EmptyRegistry
    /\ pc = [t \in Threads |-> "idle"]
    /\ call = [t \in Threads |-> NoCall]
    /\ ops = 0
    /\ ev = NoEv
    /\ configs = [n \in Namespaces |-> NoCfg]
    /\ mapper = "none"
    /\ mapperClosed = FALSE
    /\ files = NoFiles
    /\ pm = NoPM

\* ---------------------------------------------------------------- registry
\* (mutant) a type that has a factory keeps it
Registered_KeepFirst(facts, a, f) ==
    IF facts[a] = "" THEN [facts EXCEPT ![a] = f] ELSE facts

\* ar.factories[adapterType] = factory
Registered(facts, a, f) == [facts EXCEPT ![a] = f]

\* Register: ar.factories[adapterType] = factory, under the write lock
Register(t, a, f) ==
    /\ pc[t] = "idle" /\ mu = 0 /\ ops < MaxOps
    /\ factories' = Registered(factories, a, f)
    /\ ops' = ops + 1
    /\ ev' = [Event("Register", "", 0, Nil, "") EXCEPT !.adapter = a, !.factory = f]
    /\ UNCHANGED <<instances, mu, adapters, pc, call, mapperVars>>

\* a caller enters GetAdapter(ctx, source, sourceID)
GetAdapterCall(t, src, sid) ==
    /\ pc[t] = "idle" /\ ops < MaxOps
    /\ pc' = [pc EXCEPT ![t] = "ga_rlock"]
    /\ call' = [call EXCEPT ![t] = [NoCall EXCEPT !.verb = "GetAdapter",
                                        !.sid = sid, !.src = src]]
    /\ ops' = ops + 1
    /\ ev' = NoEv
    /\ UNCHANGED <<factories, instances, mu, adapters, mapperVars>>

\* a verb of the mapper returns err to its caller, having been given input
\* and having done data with it
VerbReturnWith(t, c, err, via, called, out, input, data) ==
    /\ pc' = [pc EXCEPT ![t] = "idle"]
    /\ call' = [call EXCEPT ![t] = NoCall]
    /\ ev' = [Event(c.verb, c.sid, c.inst, err, via) EXCEPT
                 !.ns = c.ns, !.src = c.src, !.called = called, !.late = c.late,
                 !.out = IF called THEN out ELSE NoOut,
                 !.tries = c.tries, !.calls = c.calls,
                 !.input = input, !.data = data, !.key = c.key]

\* a verb of the mapper returns err before it has looked at its argument
VerbReturn(t, c, err, via, called, out) ==
    VerbReturnWith(t, c, err, via, called, out, NoInput, NoData)

\* (mutant) a verb makes a second attempt before it reports a failure
ReturnsOnError_SecondTry(attempt) == attempt >= 2

\* whether a verb returns the error of its attempt-th try to the caller:
\* `if err != nil { return ... }`, there is no loop around any call
ReturnsOnError(attempt) == TRUE

\* GetAdapter returns (inst, err): to the registry's caller, or to the verb
\* that called it, which gives up on an error ("failed to get adapter: %w")
\* and goes on to the adapter's data operation otherwise
GetAdapterReturn(t, inst, err, via) ==
    LET sid == call[t].sid IN
    IF call[t].verb = "GetAdapter"
    THEN /\ pc' = [pc EXCEPT ![t] = "idle"]
         /\ call' = [call EXCEPT ![t] = NoCall]
         /\ ev' = Event("GetAdapter", sid, inst, err, via)
    ELSE IF err # Nil
    THEN IF ReturnsOnError(call[t].tries)
         THEN VerbReturn(t, call[t], Wrap("failed to get adapter", err),
                         "getadapter", FALSE, NoOut)
         ELSE /\ pc' = [pc EXCEPT ![t] = "ga_rlock"]
              /\ call' = [call EXCEPT ![t].tries = @ + 1]
              /\ ev' = NoEv
    ELSE /\ pc' = [pc EXCEPT ![t] = "adp_op"]
         /\ call' = [call EXCEPT ![t].inst = inst]
         /\ ev' = NoEv

\* the first lookup, under the read lock
GA_RLock(t) ==
    /\ pc[t] = "ga_rlock" /\ mu = 0
    /\ IF instances[call[t].sid] # 0
       THEN GetAdapterReturn(t, instances[call[t].sid], Nil, "fast")
       ELSE /\ pc' = [pc EXCEPT ![t] = "ga_lock"]
            /\ ev' = NoEv
            /\ UNCHANGED call
    /\ UNCHANGED <<factories, instances, mu, adapters, ops, mapperVars>>

\* (mutant) the write section does not look at the cache again
CachedAfterLock_NoRecheck(insts, sid) == 0

\* (mutant) the cache is looked up without regard to the sourceID: a caller
\* whose own sourceID has no instance is handed any cached one
CachedAfterLock_AnySource(insts, sid) ==
    IF insts[sid] # 0 THEN insts[sid]
    ELSE IF Cached(insts) # {} THEN CHOOSE i \in Cached(insts) : TRUE
    ELSE 0

\* the double-check after acquiring the write lock: the cached id, or 0
CachedAfterLock(insts, sid) == insts[sid]

\* (mutant) the instance is stored before Connect's result is looked at
StoreAfterConnect_Always(insts, sid, i, ok) == [insts EXCEPT ![sid] = i]

\* what Connect's outcome does to the cache: stored only on success
StoreAfterConnect(insts, sid, i, ok) ==
    IF ok THEN [insts EXCEPT ![sid] = i] ELSE insts

\* os.PathError as text: the operation, the path and the cause
PathError(op, path) == <<op, path, "permission denied">>

\* the error a factory returns when it fails: NewFilesystemAdapter(
\* source.Connection) reports the os.MkdirAll error of its base path, a mock
\* factory an error of its own
FactoryFailure(f, src) ==
    IF f = "NewFilesystemAdapter"
    THEN Wrap("failed to create base directory", PathError("mkdir", src.Connection))
    ELSE AdapterFailure

\* what Connect may return (TRUE: nil): FilesystemAdapter.Connect is a no-op
ConnectOutcomes(f) == IF f = "NewFilesystemAdapter" THEN {TRUE} ELSE BOOLEAN

\* one invocation of factory f for sid: conn is "unbuilt" when the factory
\* returned an error, else "connecting" until Connect returns, then "ok" or
\* "failed"; closes counts the Close calls the registry made on the
\* instance, closed is the adapter's own flag
Built(sid, src, f, conn) ==
    [sid |-> sid, src |-> src, by |-> f, conn |-> conn,
     closes |-> 0, closed |-> FALSE]

\* the write section up to the call of Connect: double-check, factory
\* lookup, factory(source); the lock stays held when Connect is entered
GA_Lock(t) ==
    LET sid == call[t].sid
        src == call[t].src
        hit == CachedAfterLock(instances, sid)
        f == factories[src.Adapter]
    IN
    /\ pc[t] = "ga_lock" /\ mu = 0
    /\ IF hit # 0
       THEN /\ GetAdapterReturn(t, hit, Nil, "recheck")
            /\ UNCHANGED <<mu, adapters>>
       ELSE IF f = ""
       THEN /\ GetAdapterReturn(t, 0, <<"no adapter factory registered">>, "nofactory")
            /\ UNCHANGED <<mu, adapters>>
       ELSE \E factoryOK \in BOOLEAN :
              IF factoryOK
              THEN /\ adapters' = Append(adapters, Built(sid, src, f, "connecting"))
                   /\ mu' = t
                   /\ pc' = [pc EXCEPT ![t] = "ga_connect"]
                   /\ call' = [call EXCEPT ![t].inst = Len(adapters) + 1]
                   /\ ev' = NoEv
              ELSE /\ adapters' = Append(adapters, Built(sid, src, f, "unbuilt"))
                   /\ GetAdapterReturn(t, 0,
                           Wrap("failed to create adapter instance",
                                FactoryFailure(f, src)),
                           "factoryerr")
                   /\ UNCHANGED mu
    /\ UNCHANGED <<factories, instances, ops, mapperVars>>

\* instance.Connect returns; the instance is stored on success; unlock
GA_Connect(t) ==
    LET sid == call[t].sid
        i == call[t].inst
    IN
    /\ pc[t] = "ga_connect" /\ mu = t
    /\ \E ok \in ConnectOutcomes(adapters[i].by) :
         /\ adapters' = [adapters EXCEPT ![i].conn = IF ok THEN "ok" ELSE "failed"]
         /\ instances' = StoreAfterConnect(instances, sid, i, ok)
         /\ IF ok
            THEN GetAdapterReturn(t, i, Nil, "new")
            ELSE GetAdapterReturn(t, 0,
                     Wrap("failed to connect adapter", AdapterFailure), "connecterr")
    /\ mu' = 0
    /\ UNCHANGED <<factories, ops, mapperVars>>

\* instance.Close() as the mock and the filesystem adapter run it
CloseAdapters(closed, failing) ==
    [i \in DOMAIN adapters |->
        IF i \in closed
        THEN [adapters[i] EXCEPT !.closes = @ + 1,
                                 !.closed = @ \/ (i \notin failing)]
        ELSE adapters[i]]

\* (mutant) Close returns at the first instance whose Close fails
CloseAll_ShortCircuit(insts, failing) ==
    LET errs == {s \in CachedIDs(insts) : insts[s] \in failing} IN
    IF errs = {}
    THEN [closed |-> Cached(insts), errs |-> {}, err |-> Nil,
          instances |-> NoInstances]
    ELSE LET s == CHOOSE x \in errs : TRUE IN
         [closed |-> {insts[s]}, errs |-> {s},
          err |-> <<"errors closing adapters">>, instances |-> insts]

\* AdapterRegistry.Close on cache insts when the instances in failing
\* return an error from Close
CloseAll(insts, failing) ==
    LET errs == {s \in CachedIDs(insts) : insts[s] \in failing} IN
    [closed |-> Cached(insts),
     errs |-> errs,
     err |-> IF errs # {} THEN <<"errors closing adapters">> ELSE Nil,
     instances |-> NoInstances]

\* AdapterRegistry.Close, under the write lock: every cached instance is
\* closed, each of them failing or not
CloseRegistry(t) ==
    /\ pc[t] = "idle" /\ mu = 0 /\ ops < MaxOps
    /\ \E failing \in SUBSET Cached(instances) :
         LET r == CloseAll(instances, failing) IN
         /\ adapters' = CloseAdapters(r.closed, failing)
         /\ instances' = r.instances
         /\ ev' = [Event("Close", "", 0, r.err, "") EXCEPT
                      !.closed = r.closed, !.ids = r.errs]
    /\ ops' = ops + 1
    /\ UNCHANGED <<factories, mu, pc, call>>

\* AdapterRegistry.Close called on the registry itself
Close(t) == CloseRegistry(t) /\ UNCHANGED mapperVars

\* AdapterRegistry.CloseInstance(sourceID) when the instance's Close
\* fails (closeFails) or not
CloseOne(insts, sid, closeFails) ==
    IF insts[sid] = 0
    THEN [closed |-> {}, err |-> <<"no adapter instance found">>,
          instances |-> insts]
    ELSE IF closeFails
    THEN [closed |-> {insts[sid]},
          err |-> Wrap("failed to close adapter", AdapterFailure),
          instances |-> insts]
    ELSE [closed |-> {insts[sid]}, err |-> Nil,
          instances |-> [insts EXCEPT ![sid] = 0]]

\* AdapterRegistry.CloseInstance, under the write lock
CloseInstance(t, sid) ==
    /\ pc[t] = "idle" /\ mu = 0 /\ ops < MaxOps
    /\ \E closeFails \in BOOLEAN :
         LET r == CloseOne(instances, sid, closeFails) IN
         /\ closeFails => instances[sid] # 0
         /\ adapters' = CloseAdapters(r.closed,
                                      IF closeFails THEN r.closed ELSE {})
         /\ instances' = r.instances
         /\ ev' = [Event("CloseInstance", sid, 0, r.err, "")
                      EXCEPT !.closed = r.closed]
    /\ ops' = ops + 1
    /\ UNCHANGED <<factories, mu, pc, call, mapperVars>>

\* AdapterRegistry.GetInstance(sourceID)
GetInstance(t, sid) ==
    /\ pc[t] = "idle" /\ mu = 0 /\ ops < MaxOps
    /\ ev' = Event("GetInstance", sid, instances[sid], Nil, "")
    /\ ops' = ops + 1
    /\ UNCHANGED <<factories, instances, mu, adapters, pc, call, mapperVars>>

\* AdapterRegistry.ListInstances(): the ids of the cached instances
ListInstances(t) ==
    /\ pc[t] = "idle" /\ mu = 0 /\ ops < MaxOps
    /\ ev' = [Event("ListInstances", "", 0, Nil, "") EXCEPT
                 !.ids = CachedIDs(instances)]
    /\ ops' = ops + 1
    /\ UNCHANGED <<factories, instances, mu, adapters, pc, call, mapperVars>>

\* ------------------------------------------------------------------ parser
\* the connection string a file of a namespace gives its sources; these hold
\* no ${...} placeholder and no @credentials: reference, so that
\* resolveCredentials leaves them as they are and cannot fail
ConnOf(ns) == IF ns = "n1" THEN "c1" ELSE "c2"

\* config.PropertyMap: the data field a property maps to, and whether it is
\* generated
PropertyMap(field, generated) == [Field |-> field, Generated |-> generated]

\* config.OperationConfig: the property, identifier and condition mappings,
\* the override source, the fallback chain (the
\* SourceRef names, in order), the sources of the after-actions, and
\* whether a result mapping is configured
OpConfig(src, chain) ==
    [Source |-> src, Sources |-> chain, After |-> << >>, HasResult |-> TRUE,
     Properties |-> <<PropertyMap("name", FALSE), PropertyMap("created", TRUE)>>,
     Identifier |-> <<PropertyMap("id", FALSE)>>,
     Condition |-> <<PropertyMap("version", FALSE)>>]

\* a parsed configuration file: the sources it defines, one mapping "m" with
\* default source d and the four operations, fetch overriding its source by o;
\* a file of namespace n1 has an after-action (on source A) on each writing
\* operation and a custom action "act"
File(ns, ver, defined, d, o) ==
    [Namespace |-> ns,
     Version |-> ver,
     Sources |-> [n \in defined |-> [Adapter |-> "mock", Connection |-> ConnOf(ns)]],
     Mappings |-> [m \in MappingIDs |->
         [Object |-> "User",
          Source |-> d,
          Operations |-> [k \in OpNames |->
              [OpConfig(IF k = "fetch" THEN o ELSE "", << >>) EXCEPT
                  !.After = IF ns = "n1" /\ k # "fetch" THEN <<"A">> ELSE << >>]],
          Actions |-> IF ns = "n1"
                      THEN [a \in {"act"} |-> [Source |-> ""]]
                      ELSE EmptyMap]]]

\* the files a caller may load: two well-formed ones, one whose fetch
\* operation names a source "B" the file does not define, and one of an
\* unsupported version
Files ==
    {File("n1", "1.0", {"A"}, "A", ""),
     File("n2", "1.0", {"A", "B"}, "A", "B"),
     File("n2", "1.0", {"A"}, "A", "B"),
     File("n1", "2.0", {"A"}, "A", "")}

\* Parser.validateConfig
validateConfig(cfg) ==
    IF cfg.Namespace = "" THEN <<"namespace is required">>
    ELSE IF cfg.Version = "" THEN <<"version is required">>
    ELSE IF cfg.Version # "1.0" THEN <<"unsupported version">>
    ELSE IF DOMAIN cfg.Mappings = {} THEN <<"at least one mapping is required">>
    ELSE IF \E m \in DOMAIN cfg.Mappings : cfg.Mappings[m].Object = ""
    THEN <<"object type is required">>
    ELSE IF \E m \in DOMAIN cfg.Mappings :
              /\ cfg.Mappings[m].Source = ""
              /\ DOMAIN cfg.Mappings[m].Operations = {}
              /\ DOMAIN cfg.Mappings[m].Actions = {}
    THEN <<"must have either a default source or operations/actions">>
    ELSE Nil

\* the source names a mapping refers to, as validateSourceReferences walks
\* them: the default, each operation's override, fallback chain and
\* after-action sources, each action's source
References(mapping) ==
    (IF mapping.Source # "" THEN {mapping.Source} ELSE {})
    \cup UNION {
        LET op == mapping.Operations[k] IN
        (IF op.Source # "" THEN {op.Source} ELSE {})
        \cup {op.Sources[j] : j \in DOMAIN op.Sources}
        \cup {op.After[j] : j \in {x \in DOMAIN op.After : op.After[x] # ""}}
        : k \in DOMAIN mapping.Operations}
    \cup {mapping.Actions[a].Source :
             a \in {x \in DOMAIN mapping.Actions : mapping.Actions[x].Source # ""}}

\* Parser.validateSourceReferences
validateSourceReferences(cfg) ==
    IF \E m \in DOMAIN cfg.Mappings :
           \E n \in References(cfg.Mappings[m]) : n \notin DOMAIN cfg.Sources
    THEN <<"source not defined">>
    ELSE Nil

Loaded(cfgs) == {n \in Namespaces : cfgs[n] # NoCfg}

\* (mutant) a file of a namespace already loaded is refused but takes the
\* place of the configuration loaded before
LoadFileResult_Overwrite(cfgs, f) ==
    IF validateConfig(f) # Nil
    THEN [err |-> Wrap("invalid configuration", validateConfig(f)), configs |-> cfgs]
    ELSE IF cfgs[f.Namespace] # NoCfg
    THEN [err |-> <<"namespace collision">>,
          configs |-> [cfgs EXCEPT ![f.Namespace] = f]]
    ELSE [err |-> Nil, configs |-> [cfgs EXCEPT ![f.Namespace] = f]]

\* Parser.LoadFile on parser state cfgs: the error and the new parser state
LoadFileResult(cfgs, f) ==
    IF validateConfig(f) # Nil
    THEN [err |-> Wrap("invalid configuration", validateConfig(f)), configs |-> cfgs]
    ELSE IF cfgs[f.Namespace] # NoCfg
    THEN [err |-> <<"namespace collision">>, configs |-> cfgs]
    ELSE [err |-> Nil, configs |-> [cfgs EXCEPT ![f.Namespace] = f]]

\* Parser.Validate
Validate(cfgs) ==
    IF Loaded(cfgs) = {} THEN <<"no configurations loaded">>
    ELSE IF \E n \in Loaded(cfgs) : validateConfig(cfgs[n]) # Nil
    THEN <<"validation error", "invalid configuration">>
    ELSE IF \E n \in Loaded(cfgs) : validateSourceReferences(cfgs[n]) # Nil
    THEN <<"validation error", "source not defined">>
    ELSE Nil

\* Parser.GetMapping(namespace.mappingID)
GetMapping(cfgs, ns, m) ==
    IF cfgs[ns] = NoCfg
    THEN [err |-> <<"configuration namespace not found">>]
    ELSE IF m \notin DOMAIN cfgs[ns].Mappings
    THEN [err |-> <<"mapping not found">>]
    ELSE [err |-> Nil, mapping |-> cfgs[ns].Mappings[m], cfg |-> cfgs[ns]]

\* the caller loads a file into the parser it owns, before or after it has
\* handed the parser to NewMapperWithParser; the parser has no lock, so the
\* caller does this while no verb is reading it; a parser that NewMapper
\* made is out of the caller's reach
LoadFile(f) ==
    /\ mapper # "owned"
    /\ \A t \in Threads : pc[t] = "idle"
    /\ LET r == LoadFileResult(configs, f) IN
       /\ configs' = r.configs
       /\ ev' = [Event("LoadFile", "", 0, r.err, "") EXCEPT !.ns = f.Namespace,
                                                            !.loaded = <<configs>>]
    /\ UNCHANGED <<factories, instances, mu, adapters, pc, call, ops, mapper,
                   mapperClosed, files, pm>>

\* NewMapperWithParser(parser): Validate, then a Mapper over a new registry
NewMapperWithParser ==
    /\ mapper = "none"
    /\ LET err == Validate(configs) IN
       /\ mapper' = IF err = Nil THEN "shared" ELSE "none"
       /\ ev' = Event("NewMapperWithParser", "", 0,
                      IF err = Nil THEN Nil ELSE Wrap("invalid configuration", err), "")
    /\ UNCHANGED <<factories, instances, mu, adapters, pc, call, ops, configs,
                   mapperClosed, files, pm>>

\* NewMapper(configPath): a new parser, LoadFile, Validate; the parser is
\* kept only when both succeed
NewMapper(f) ==
    /\ mapper = "none" /\ Loaded(configs) = {}
    /\ LET l == LoadFileResult(configs, f)
           err == IF l.err # Nil
                  THEN Wrap("failed to load configuration", l.err)
                  ELSE IF Validate(l.configs) # Nil
                  THEN Wrap("invalid configuration", Validate(l.configs))
                  ELSE Nil
       IN
       /\ mapper' = IF err = Nil THEN "owned" ELSE "none"
       /\ configs' = IF err = Nil THEN l.configs ELSE configs
       /\ ev' = [Event("NewMapper", "", 0, err, "") EXCEPT !.ns = f.Namespace]
    /\ UNCHANGED <<factories, instances, mu, adapters, pc, call, ops,
                   mapperClosed, files, pm>>

\* ------------------------------------------------------------------ mapper
\* a lookup in cfg.Sources as resolveSource does it for each rule
SourceNamed(cfg, name) ==
    IF name \notin DOMAIN cfg.Sources
    THEN [source |-> NoSrc, sourceID |-> "", err |-> <<"source not found">>]
    ELSE [source |-> cfg.Sources[name], sourceID |-> name, err |-> Nil]

\* (mutant) the mapping's default source is tried before the fallback chain
resolveSource_DefaultFirst(cfg, mapping, opConfig) ==
    IF opConfig.Source # "" THEN SourceNamed(cfg, opConfig.Source)
    ELSE IF mapping.Source # "" THEN SourceNamed(cfg, mapping.Source)
    ELSE IF Len(opConfig.Sources) > 0 THEN SourceNamed(cfg, opConfig.Sources[1])
    ELSE [source |-> NoSrc, sourceID |-> "",
          err |-> <<"no source configured for operation">>]

\* (mutant) a rule whose source is absent gives way to the next rule
resolveSource_FallThrough(cfg, mapping, opConfig) ==
    IF opConfig.Source \in DOMAIN cfg.Sources
    THEN SourceNamed(cfg, opConfig.Source)
    ELSE IF Len(opConfig.Sources) > 0 /\ opConfig.Sources[1] \in DOMAIN cfg.Sources
    THEN SourceNamed(cfg, opConfig.Sources[1])
    ELSE IF mapping.Source # "" THEN SourceNamed(cfg, mapping.Source)
    ELSE [source |-> NoSrc, sourceID |-> "",
          err |-> <<"no source configured for operation">>]

\* Mapper.resolveSource
resolveSource(cfg, mapping, opConfig) ==
    IF opConfig.Source # "" THEN SourceNamed(cfg, opConfig.Source)
    ELSE IF Len(opConfig.Sources) > 0 THEN SourceNamed(cfg, opConfig.Sources[1])
    ELSE IF mapping.Source # "" THEN SourceNamed(cfg, mapping.Source)
    ELSE [source |-> NoSrc, sourceID |-> "",
          err |-> <<"no source configured for operation">>]

\* the key of mapping.Operations a verb looks up
OpName(verb) ==
    CASE verb \in {"Fetch", "FetchMulti"} -> "fetch"
      [] verb = "Insert" -> "insert"
      [] verb = "Update" -> "update"
      [] verb = "Delete" -> "delete"

\* an argument: nil, one value, or a list of MaxItems values that is a
\* []interface{} ("ifaces"), a []map[string]interface{} ("maps") or a slice
\* of another type such as []User or []string ("typed")
NilInput == [shape |-> "nil", items |-> << >>]
Single(k) == [shape |-> "single", items |-> <<Item(k, 1)>>]
List(shape, k) == [shape |-> shape, items |-> [i \in 1..MaxItems |-> Item(k, i)]]

\* the argument a caller passes: the objects of Insert and Update, the
\* identifiers of Delete, the result target of Fetch (a pointer to a
\* struct) and of FetchMulti (a pointer to a []map[string]interface{},
\* empty or holding an element already, or to a slice of structs)
InputsOf(verb) ==
    CASE verb = "Fetch" -> {Single("struct")}
      [] verb = "FetchMulti" ->
            {[shape |-> "maps", items |-> << >>],
             [shape |-> "maps", items |-> <<Item("map", 0)>>],
             [shape |-> "typed", items |-> << >>]}
      [] verb \in {"Insert", "Update"} ->
            {NilInput, Single("struct"), Single("badstruct"),
             List("ifaces", "struct"), List("typed", "struct")}
      [] verb = "Delete" ->
            {NilInput, Single("scalar"), List("ifaces", "scalar"),
             List("maps", "map"), List("typed", "scalar")}

\* FilesystemAdapter.Fetch of one record: fetchSingle returns
\* adapter.ErrNotFound when the file is not there
fsFetch(present) ==
    IF present
    THEN [err |-> Nil, n |-> 1, rec |-> "ok"]
    ELSE [err |-> ErrNotFound, n |-> 0, rec |-> ""]

\* what the adapter's data operation may return
OutcomesOf(verb) ==
    IF verb \in {"Fetch", "FetchMulti"}
    THEN {[err |-> AdapterFailure, n |-> 0, rec |-> ""]}
         \cup {fsFetch(present) : present \in BOOLEAN}
         \cup {[err |-> Nil, n |-> 0, rec |-> ""]}
         \cup {[err |-> Nil, n |-> k, rec |-> r] :
                  k \in 1..MaxRecords, r \in {"ok", "notmap", "maperr"}}
    ELSE {[err |-> e, n |-> 0, rec |-> ""] : e \in {Nil, AdapterFailure, ErrNotFound}}

\* the records of a Fetch outcome, in the adapter's order
Records(out) == [i \in 1..out.n |-> Item(out.rec, i)]

\* (mutant) a verb whose operation the mapping lacks goes on with an empty
\* operation, which resolves to the mapping's default source
OperationOf_Default(mapping, verb) ==
    [err |-> Nil,
     opConfig |-> IF OpName(verb) \in DOMAIN mapping.Operations
                  THEN mapping.Operations[OpName(verb)]
                  ELSE OpConfig("", << >>)]

\* `opConfig, exists := mapping.Operations["fetch"]` and the error returned
\* when it does not exist
OperationOf(mapping, verb) ==
    IF OpName(verb) \in DOMAIN mapping.Operations
    THEN [err |-> Nil, opConfig |-> mapping.Operations[OpName(verb)]]
    ELSE [err |-> <<"mapping does not have the operation">>,
          opConfig |-> OpConfig("", << >>)]

\* a verb enters: GetMapping, the operation's lookup and resolveSource; then
\* on to the registry's GetAdapter
VerbCall(t, verb, ns, m) ==
    LET gm == GetMapping(configs, ns, m)
        c == [NoCall EXCEPT !.verb = verb, !.ns = ns, !.m = m,
                            !.late = mapperClosed]
    IN
    /\ mapper # "none" /\ pc[t] = "idle" /\ ops < MaxOps
    /\ ops' = ops + 1
    /\ IF gm.err # Nil
       THEN VerbReturn(t, c, gm.err, "nomapping", FALSE, NoOut)
       ELSE IF OperationOf(gm.mapping, verb).err # Nil
       THEN VerbReturn(t, c, OperationOf(gm.mapping, verb).err, "noop",
                       FALSE, NoOut)
       ELSE LET rs == resolveSource(gm.cfg, gm.mapping,
                                    OperationOf(gm.mapping, verb).opConfig)
            IN IF rs.err # Nil
               THEN VerbReturn(t, c, Wrap("failed to resolve source", rs.err),
                               "resolve", FALSE, NoOut)
               ELSE /\ pc' = [pc EXCEPT ![t] = "ga_rlock"]
                    /\ call' = [call EXCEPT ![t] =
                                   [c EXCEPT !.sid = rs.sourceID, !.src = rs.source,
                                             !.tries = 1]]
                    /\ ev' = NoEv
    /\ UNCHANGED <<factories, instances, mu, adapters, mapperVars>>

\* (mutant) Fetch reports an empty result like any other failure of the fetch
FetchFinish_WrapNotFound(opConfig, out) ==
    IF out.err # Nil
    THEN [err |-> Wrap("fetch failed", out.err), via |-> "adaptererr"]
    ELSE IF out.n = 0
    THEN [err |-> Wrap("fetch failed", ErrNotFound), via |-> "notfound"]
    ELSE IF opConfig.HasResult /\ out.rec = "notmap"
    THEN [err |-> <<"expected map[string]interface{}">>, via |-> "notmap"]
    ELSE IF opConfig.HasResult /\ out.rec = "maperr"
    THEN [err |-> Wrap("failed to map result", <<"mapping failure">>), via |-> "maperr"]
    ELSE [err |-> Nil, via |-> "ok"]

\* Mapper.Fetch from the adapter's return on
FetchFinish(opConfig, out) ==
    IF out.err # Nil
    THEN [err |-> Wrap("fetch failed", out.err), via |-> "adaptererr"]
    ELSE IF out.n = 0
    THEN [err |-> ErrNotFound, via |-> "notfound"]
    ELSE IF opConfig.HasResult /\ out.rec = "notmap"
    THEN [err |-> <<"expected map[string]interface{}">>, via |-> "notmap"]
    ELSE IF opConfig.HasResult /\ out.rec = "maperr"
    THEN [err |-> Wrap("failed to map result", <<"mapping failure">>), via |-> "maperr"]
    ELSE [err |-> Nil, via |-> "ok"]

\* Mapper.mapSliceResults: a *[]map[string]interface{} target is
\* replaced by one element per record, a record that is no map leaving a
\* nil map in its place; any other target is refused and left as it was
mapSliceResults(data, results) ==
    IF results.shape = "maps"
    THEN [err |-> Nil,
          results |-> [results EXCEPT !.items =
                          [i \in DOMAIN data |->
                              IF data[i].k = "notmap" THEN Item("nilmap", 0)
                              ELSE data[i]]]]
    ELSE [err |-> <<"results must be *[]map[string]interface{}">>,
          results |-> results]

\* Mapper.FetchMulti from the adapter's return on: the error, and the
\* caller's target as the verb leaves it
FetchMultiFinish(opConfig, input, out) ==
    IF out.err # Nil
    THEN [err |-> Wrap("fetch failed", out.err), via |-> "adaptererr",
          results |-> input]
    ELSE IF opConfig.HasResult /\ out.n > 0
    THEN LET r == mapSliceResults(Records(out), input) IN
         IF r.err # Nil
         THEN [err |-> Wrap("failed to map results", r.err), via |-> "maperr",
               results |-> r.results]
         ELSE [err |-> Nil, via |-> "ok", results |-> r.results]
    ELSE [err |-> Nil, via |-> "ok", results |-> input]

\* Mapper.toSlice: nil is refused, a []interface{} and a
\* []map[string]interface{} give their elements, anything else (a slice of
\* another type too) is wrapped as the one element of a new list
toSlice(objects) ==
    IF objects.shape = "nil"
    THEN [err |-> <<"objects cannot be nil">>, slice |-> << >>]
    ELSE IF objects.shape \in {"ifaces", "maps"}
    THEN [err |-> Nil, slice |-> objects.items]
    ELSE [err |-> Nil,
          slice |-> <<IF objects.shape = "single" THEN objects.items[1]
                      ELSE Item("slice", 0)>>]

\* PropertyMapper.MapFromObject: the record of a struct holds the data field
\* of every mapping that is not generated
MapFromObject(obj, mappings) ==
    IF obj.k \notin {"struct", "badstruct"}
    THEN [err |-> <<"object must be a struct or pointer to struct">>,
          data |-> [id |-> 0, fields |-> {}]]
    ELSE IF obj.k = "badstruct"
    THEN [err |-> <<"field not found in object">>,
          data |-> [id |-> 0, fields |-> {}]]
    ELSE [err |-> Nil,
          data |-> [id |-> obj.id,
                    fields |-> {mappings[j].Field :
                                   j \in {x \in DOMAIN mappings :
                                             ~mappings[x].Generated}}]]

\* Insert, Update and Delete before the adapter is called: toSlice, and for
\* Insert and Update MapFromObject with opConfig.Properties on each object
\* in order; sent is the list for the adapter
ConvertInput(verb, opConfig, input) ==
    LET ts == toSlice(input)
        recs == [i \in DOMAIN ts.slice |->
                    MapFromObject(ts.slice[i], opConfig.Properties)]
        bad == {i \in DOMAIN recs : recs[i].err # Nil}
    IN
    IF ts.err # Nil
    THEN [err |-> Wrap(IF verb = "Delete" THEN "failed to convert identifiers"
                       ELSE "failed to convert objects", ts.err),
          sent |-> << >>]
    ELSE IF verb = "Delete"
    THEN [err |-> Nil, sent |-> ts.slice]
    ELSE IF bad # {}
    THEN [err |-> Wrap("failed to map object",
                       recs[CHOOSE i \in bad : \A j \in bad : i <= j].err),
          sent |-> << >>]
    ELSE [err |-> Nil, sent |-> [i \in DOMAIN recs |-> recs[i].data]]

\* Mapper.executeAfterActions: executes none of the actions, returns nil
executeAfterActions(actions) == [err |-> Nil, ran |-> << >>]

\* (mutant) the adapter's error is formatted into the message (%v), which
\* cuts the chain
WriteFinish_Reworded(verb, opConfig, out) ==
    IF out.err # Nil
    THEN [err |-> <<"operation failed">>, via |-> "adaptererr", ran |-> << >>]
    ELSE [err |-> Nil, via |-> "ok", ran |-> << >>]

\* Insert, Update and Delete from the adapter's return on
WriteFinish(verb, opConfig, out) ==
    IF out.err # Nil
    THEN [err |-> Wrap(CASE verb = "Insert" -> "insert failed"
                         [] verb = "Update" -> "update failed"
                         [] verb = "Delete" -> "delete failed",
                       out.err),
          via |-> "adaptererr", ran |-> << >>]
    ELSE LET aa == executeAfterActions(opConfig.After) IN
         IF aa.err # Nil
         THEN [err |-> Wrap("after actions failed", aa.err), via |-> "aftererr",
               ran |-> aa.ran]
         ELSE [err |-> Nil, via |-> "ok", ran |-> aa.ran]

\* the verb, holding its adapter, looks at its argument for the first time
\* (input: what the caller passed), builds the operation, calls the
\* adapter's data operation and returns
AdapterOp(t) ==
    LET c == call[t]
        opConfig == configs[c.ns].Mappings[c.m].Operations[OpName(c.verb)]
        d == [c EXCEPT !.calls = @ + 1]
    IN
    /\ pc[t] = "adp_op"
    /\ \E input \in InputsOf(c.verb) :
         LET cv == IF c.verb \in {"Insert", "Update", "Delete"}
                   THEN ConvertInput(c.verb, opConfig, input)
                   ELSE [err |-> Nil, sent |-> << >>]
         IN
         IF cv.err # Nil
         THEN VerbReturnWith(t, c, cv.err, "convert", FALSE, NoOut, input,
                             [NoData EXCEPT !.result = IF c.verb = "FetchMulti"
                                                       THEN input.items ELSE << >>])
         ELSE \E out \in OutcomesOf(c.verb) :
                IF out.err # Nil /\ ~ReturnsOnError(d.calls)
                THEN /\ call' = [call EXCEPT ![t] = d]
                     /\ ev' = NoEv
                     /\ UNCHANGED pc
                ELSE CASE c.verb = "Fetch" ->
                            LET r == FetchFinish(opConfig, out) IN
                            VerbReturnWith(t, d, r.err, r.via, TRUE, out, input, NoData)
                       [] c.verb = "FetchMulti" ->
                            LET r == FetchMultiFinish(opConfig, input, out) IN
                            VerbReturnWith(t, d, r.err, r.via, TRUE, out, input,
                                           [NoData EXCEPT !.result = r.results.items])
                       [] OTHER ->
                            LET r == WriteFinish(c.verb, opConfig, out) IN
                            VerbReturnWith(t, d, r.err, r.via, TRUE, out, input,
                                           [NoData EXCEPT !.sent = cv.sent,
                                                          !.ran = r.ran])
    /\ UNCHANGED <<factories, instances, mu, adapters, ops, mapperVars>>

\* Mapper.Execute(ctx, "namespace.mapping.action", params, result)
Execute(t, ns, m, a) ==
    /\ mapper # "none" /\ pc[t] = "idle" /\ ops < MaxOps
    /\ ops' = ops + 1
    /\ pc' = pc /\ call' = call
    /\ ev' = [Event("Execute", "", 0, <<"Execute not yet implemented">>,
                    "notimplemented") EXCEPT
                 !.ns = ns, !.action = a, !.late = mapperClosed]
    /\ UNCHANGED <<factories, instances, mu, adapters, mapperVars>>

\* Mapper.RegisterAdapter
RegisterAdapter(t, a, f) ==
    /\ mapper # "none"
    /\ Register(t, a, f)

\* Mapper.Close: the registry's Close, its error returned as it is
MapperClose(t) ==
    /\ mapper # "none"
    /\ CloseRegistry(t)
    /\ mapperClosed' = TRUE
    /\ UNCHANGED <<configs, mapper, files, pm>>

\* a parser, a mapper over it, and concurrent callers of the mapper
NextMapper ==
    \/ \E f \in Files : LoadFile(f)
    \/ NewMapperWithParser
    \/ \E f \in Files : NewMapper(f)
    \/ \E t \in Threads, a \in AdapterTypes : RegisterAdapter(t, a, "f1")
    \/ \E t \in Threads, verb \in Verbs, ns \in Namespaces, m \in MappingIDs :
           VerbCall(t, verb, ns, m)
    \/ \E t \in Threads : GA_RLock(t)
    \/ \E t \in Threads : GA_Lock(t)
    \/ \E t \in Threads : GA_Connect(t)
    \/ \E t \in Threads : AdapterOp(t)
    \/ \E t \in Threads, ns \in Namespaces, m \in MappingIDs, a \in ActionNames :
           Execute(t, ns, m, a)
    \/ \E t \in Threads : MapperClose(t)

SpecMapper == Init /\ [][NextMapper]_vars

\* --------------------------------------------------------- source resolution
\* resolveSource on its own, over every small configuration: the sources
\* defined, the mapping's default, the fetch operation's override and chain
ResolveNames == {"A", "B", "C"}

Chains == UNION {[1..k -> ResolveNames \cup {""}] : k \in 0..MaxChain}

ResolveConfigs ==
    {[Namespace |-> "n1",
      Version |-> "1.0",
      Sources |-> [n \in defined |-> [Adapter |-> "mock", Connection |-> n]],
      Mappings |-> [m \in MappingIDs |->
          [Object |-> "User",
           Source |-> d,
           Operations |-> [k \in {"fetch"} |-> OpConfig(o, chain)],
           Actions |-> EmptyMap]]] :
        defined \in SUBSET ResolveNames,
        d \in ResolveNames \cup {""},
        o \in ResolveNames \cup {""},
        chain \in Chains}

InitResolve ==
    /\ EmptyRegistry
    /\ pc = [t \in Threads |-> "idle"]
    /\ call = [t \in Threads |-> NoCall]
    /\ ops = 0
    /\ ev = NoEv
    /\ \E cfg \in ResolveConfigs : configs = [n \in Namespaces |->
                                                IF n = "n1" THEN cfg ELSE NoCfg]
    /\ mapper = "owned"
    /\ mapperClosed = FALSE
    /\ files = NoFiles
    /\ pm = NoPM

\* one call of resolveSource, for the operation k of mapping m
ResolveStep(ns, m, k) ==
    /\ ev.op = ""
    /\ configs[ns] # NoCfg
    /\ k \in DOMAIN configs[ns].Mappings[m].Operations
    /\ LET rs == resolveSource(configs[ns], configs[ns].Mappings[m],
                               configs[ns].Mappings[m].Operations[k])
       IN ev' = [Event("resolveSource", rs.sourceID, 0, rs.err, k) EXCEPT
                    !.ns = ns, !.src = rs.source]
    /\ UNCHANGED <<factories, instances, mu, adapters, pc, call, ops, mapperVars>>

NextResolve ==
    \E ns \in Namespaces, m \in MappingIDs, k \in OpNames : ResolveStep(ns, m, k)

SpecResolve == InitResolve /\ [][NextResolve]_vars

\* -------------------------------------------------------- filesystem store
\* the mapper over the filesystem adapter, as the integration tests set it
\* up: one source, the path template "user_{id}.json" on every operation,
\* insert mapping id and name, update mapping name with identifier id,
\* delete with identifier id, fetch with a result mapping
StoreOp(k) ==
    [OpConfig("", << >>) EXCEPT
        !.Properties = IF k = "insert"
                       THEN <<PropertyMap("id", FALSE), PropertyMap("name", FALSE)>>
                       ELSE IF k = "update" THEN <<PropertyMap("name", FALSE)>>
                       ELSE << >>,
        !.Identifier = IF k \in {"update", "delete"}
                       THEN <<PropertyMap("id", FALSE)>> ELSE << >>,
        !.Condition = << >>]

StoreFile ==
    [Namespace |-> "n1",
     Version |-> "1.0",
     Sources |-> [n \in {"A"} |-> [Adapter |-> "filesystem", Connection |-> "c1"]],
     Mappings |-> [m \in MappingIDs |->
         [Object |-> "User",
          Source |-> "A",
          Operations |-> [k \in OpNames |-> StoreOp(k)],
          Actions |-> EmptyMap]]]

\* the same file with no operation but insert on its mapping
StoreFileInsertOnly ==
    [StoreFile EXCEPT !.Mappings =
        [m \in MappingIDs |->
            [StoreFile.Mappings[m] EXCEPT !.Operations =
                [k \in {"insert"} |-> StoreOp(k)]]]]

\* the placeholders of the path template
PathParams == {"id"}

\* resolvePath: every placeholder must be a key of params
resolvePath(params) ==
    IF PathParams \subseteq params
    THEN Nil
    ELSE Wrap("failed to resolve path", <<"unresolved placeholders in path">>)

\* a file as Insert ("inserted") or Update ("updated") writes it from the
\* record obj
Written(obj, val) == [id |-> obj.id, val |-> val, fields |-> obj.fields]

\* os.Stat(fullPath) returns no error: the file of record id is there
fileExists_Never(fs, id) == FALSE

fileExists(fs, id) == fs[id] # NoFile

\* FilesystemAdapter.Insert from object i on: the loop returns at the first
\* object it cannot write, the files written before it stay
RECURSIVE fsInsert(_, _, _)
fsInsert(fs, objects, i) ==
    IF i > Len(objects) THEN [err |-> Nil, files |-> fs]
    ELSE IF resolvePath(objects[i].fields) # Nil
    THEN [err |-> resolvePath(objects[i].fields), files |-> fs]
    ELSE IF fileExists(fs, objects[i].id)
    THEN [err |-> <<"file already exists">>, files |-> fs]
    ELSE fsInsert([fs EXCEPT ![objects[i].id] = Written(objects[i], "inserted")],
                  objects, i + 1)

\* FilesystemAdapter.Update from object i on
RECURSIVE fsUpdate(_, _, _)
fsUpdate(fs, objects, i) ==
    IF i > Len(objects) THEN [err |-> Nil, files |-> fs]
    ELSE IF resolvePath(objects[i].fields) # Nil
    THEN [err |-> resolvePath(objects[i].fields), files |-> fs]
    ELSE IF fs[objects[i].id] = NoFile
    THEN [err |-> ErrNotFound, files |-> fs]
    ELSE fsUpdate([fs EXCEPT ![objects[i].id] = Written(objects[i], "updated")],
                  objects, i + 1)

\* FilesystemAdapter.Delete from identifier i on: a map is the params, a
\* scalar becomes the value of the first identifier field
RECURSIVE fsDelete(_, _, _, _)
fsDelete(fs, identifiers, identifier, i) ==
    IF i > Len(identifiers) THEN [err |-> Nil, files |-> fs]
    ELSE LET v == identifiers[i]
             params == IF v.k = "map" THEN {"id"}
                       ELSE {identifier[j].Field : j \in DOMAIN identifier}
         IN
         IF v.k \notin {"map", "scalar"}
         THEN [err |-> <<"unsupported identifier type">>, files |-> fs]
         ELSE IF v.k = "scalar" /\ Len(identifier) = 0
         THEN [err |-> <<"no identifier mapping defined">>, files |-> fs]
         ELSE IF resolvePath(params) # Nil
         THEN [err |-> resolvePath(params), files |-> fs]
         ELSE IF fs[v.id] = NoFile
         THEN [err |-> ErrNotFound, files |-> fs]
         ELSE fsDelete([fs EXCEPT ![v.id] = NoFile], identifiers, identifier, i + 1)

\* the adapter's Insert, Update or Delete on the list the mapper sends
fsWrite(verb, fs, sent, opConfig) ==
    CASE verb = "Insert" -> fsInsert(fs, sent, 1)
      [] verb = "Update" -> fsUpdate(fs, sent, 1)
      [] verb = "Delete" -> fsDelete(fs, sent, opConfig.Identifier, 1)

\* one value with a record id of its own
One(k, i) == [shape |-> "single", items |-> <<Item(k, i)>>]

\* the arguments of the integration tests: objects that are structs or
\* map[string]interface{}, one or a []interface{} of them; identifiers that
\* are scalars; a Fetch target that is a pointer to a struct or to a map
StoreInputsOf(verb) ==
    CASE verb = "Fetch" -> {Single("struct"), Single("map")}
      [] verb \in {"Insert", "Update"} ->
            {One(k, i) : k \in {"struct", "map"}, i \in RecordIDs}
            \cup {List("ifaces", "struct")}
      [] verb = "Delete" ->
            {One("scalar", i) : i \in RecordIDs} \cup {List("ifaces", "scalar")}

\* NewMapper(configPath) and RegisterAdapter("filesystem", factory) are done
InitStore ==
    /\ factories = [a \in AdapterTypes \cup {"filesystem"} |->
                       IF a = "filesystem" THEN "NewFilesystemAdapter" ELSE ""]
    /\ instances = NoInstances
    /\ mu = 0
    /\ adapters = << >>
    /\ pc = [t \in Threads |-> "idle"]
    /\ call = [t \in Threads |-> NoCall]
    /\ ops = 0
    /\ ev = NoEv
    /\ \E f \in {StoreFile, StoreFileInsertOnly} :
          configs = [n \in Namespaces |-> IF n = "n1" THEN f ELSE NoCfg]
    /\ mapper = "owned"
    /\ mapperClosed = FALSE
    /\ files = NoFiles
    /\ pm = NoPM

\* the verb, holding the filesystem adapter, converts its argument, calls
\* the adapter's data operation (which runs under the adapter's own lock,
\* in one step) and returns; a Fetch asks for the record id key and maps
\* the record into its target with MapToObject, which takes a pointer to a
\* struct only
FsOp(t) ==
    LET c == call[t]
        opConfig == OperationOf(configs[c.ns].Mappings[c.m], c.verb).opConfig
        d == [c EXCEPT !.calls = @ + 1]
    IN
    /\ pc[t] = "adp_op"
    /\ \E input \in StoreInputsOf(c.verb) :
         IF c.verb = "Fetch"
         THEN \E key \in RecordIDs :
                LET out == [fsFetch(files[key] # NoFile) EXCEPT
                               !.rec = IF files[key] = NoFile THEN ""
                                       ELSE IF input.items[1].k = "struct" THEN "ok"
                                       ELSE "maperr"]
                    r == FetchFinish(opConfig, out)
                IN
                /\ VerbReturnWith(t, [d EXCEPT !.key = key], r.err, r.via, TRUE,
                                  out, input,
                                  [NoData EXCEPT !.result =
                                      IF r.err = Nil THEN <<files[key]>> ELSE << >>])
                /\ files' = files
         ELSE LET cv == ConvertInput(c.verb, opConfig, input) IN
              IF cv.err # Nil
              THEN /\ VerbReturnWith(t, c, cv.err, "convert", FALSE, NoOut, input, NoData)
                   /\ files' = files
              ELSE LET w == fsWrite(c.verb, files, cv.sent, opConfig)
                       out == [NoOut EXCEPT !.err = w.err]
                       r == WriteFinish(c.verb, opConfig, out)
                   IN
                   /\ VerbReturnWith(t, d, r.err, r.via, TRUE, out, input,
                                     [NoData EXCEPT !.sent = cv.sent, !.ran = r.ran])
                   /\ files' = w.files
    /\ UNCHANGED <<factories, instances, mu, adapters, ops, configs, mapper,
                   mapperClosed, pm>>

\* concurrent callers of one mapper over the filesystem adapter
NextStore ==
    \/ \E t \in Threads, verb \in {"Fetch", "Insert", "Update", "Delete"} :
           VerbCall(t, verb, "n1", "m")
    \/ \E t \in Threads : GA_RLock(t)
    \/ \E t \in Threads : GA_Lock(t)
    \/ \E t \in Threads : GA_Connect(t)
    \/ \E t \in Threads : FsOp(t)

SpecStore == InitStore /\ [][NextStore]_vars

\* ---------------------------------------------------------- property mapper
\* PropertyMapper on its own, field by field. The struct is engine.TestUser
\* cut to one field of each kind: a plain one, a time.Time and an optional
\* *time.Time. The "json" type hint is left out.
FieldTypes == [ID |-> "int", CreatedAt |-> "time", UpdatedAt |-> "*time"]
StructFields == DOMAIN FieldTypes

\* a time.Time: sec the instant, off the offset of its zone east of UTC,
\* nsec the part of the instant below one second
Time(sec, off, nsec) == [sec |-> sec, off |-> off, nsec |-> nsec]
ZeroTime == Time(0, 0, 0)
Times == {ZeroTime, Time(5, 0, 0), Time(5, 2, 0), Time(5, 0, 1)}

\* the text of a timestamp: the wall clock it shows, to the second, and the
\* offset written after it ("Z" is offset 0)
Text(wall, off) == [wall |-> wall, off |-> off]
NoText == Text(0, 0)

\* an interface{} value of a record: nil, an int, a time.Time or a string
\* holding a timestamp
NilV == [t |-> "nil", n |-> 0, tm |-> ZeroTime, txt |-> NoText]
IntV(n) == [NilV EXCEPT !.t = "int", !.n = n]
TimeV(x) == [NilV EXCEPT !.t = "time", !.tm = x]
StrV(txt) == [NilV EXCEPT !.t = "string", !.txt = txt]

\* a struct value (k = "struct") or a map[string]interface{} passed where a
\* struct is expected (k = "map"); f holds the fields, a pointer field being
\* << >> when nil and <<x>> when it points at x
Struct(id, created, updated) ==
    [k |-> "struct", f |-> [ID |-> id, CreatedAt |-> created, UpdatedAt |-> updated]]
ZeroStruct == Struct(0, ZeroTime, << >>)
MapObject == [ZeroStruct EXCEPT !.k = "map"]

\* config.PropertyMap with its type hint
TypedPropertyMap(object, field, type, generated) ==
    [Object |-> object, Field |-> field, Type |-> type, Generated |-> generated]

\* (mutant) the zero value of a pointer field points at a zero value
Zero_PointerToZero(ftype) ==
    IF ftype = "int" THEN 0 ELSE IF ftype = "time" THEN ZeroTime ELSE <<ZeroTime>>

\* reflect.Zero(field.Type()): the zero value of a pointer type is nil
Zero(ftype) ==
    IF ftype = "int" THEN 0 ELSE IF ftype = "time" THEN ZeroTime ELSE << >>

\* the type a field holds once a pointer is followed
Elem(ftype) == IF ftype = "*time" THEN "time" ELSE ftype

\* (mutant) the time is converted to UTC before it is formatted
FormatRFC3339_UTC(t) == Text(t.sec, 0)

\* t.Format(time.RFC3339): the wall clock of t's own zone, whole seconds,
\* followed by that zone's offset
FormatRFC3339(t) == Text(t.sec + t.off, t.off)

\* time.Parse(time.RFC3339, v): the instant the text names, in a zone of the
\* offset the text names
ParseRFC3339(txt) == Time(txt.wall - txt.off, txt.off, 0)

\* getTimestamp
getTimestamp(ty, c) ==
    IF ty # "time"
    THEN [err |-> <<"field is not a time.Time">>, v |-> NilV]
    ELSE [err |-> Nil, v |-> StrV(FormatRFC3339(c))]

\* getValue: a nil pointer gives nil, a pointer is followed, then the hint
getValue(ftype, c, hint) ==
    IF ftype = "*time" /\ c = << >>
    THEN [err |-> Nil, v |-> NilV]
    ELSE LET e == IF ftype = "*time" THEN c[1] ELSE c IN
         IF hint = "timestamp"
         THEN getTimestamp(Elem(ftype), e)
         ELSE [err |-> Nil,
               v |-> IF Elem(ftype) = "int" THEN IntV(e) ELSE TimeV(e)]

\* setDirect: a pointer field gets a new pointer to the value set directly;
\* a value of the field's type is assigned; none of int, time.Time and
\* string converts to another of them that a field here has
setDirect(ftype, value) ==
    LET x == IF value.t = "int" THEN value.n ELSE value.tm IN
    IF value.t # Elem(ftype)
    THEN [err |-> <<"cannot assign">>, c |-> Zero(ftype)]
    ELSE [err |-> Nil, c |-> IF ftype = "*time" THEN <<x>> ELSE x]

\* setTimestamp: a time.Time as it is, a string parsed (every string of the
\* model is RFC 3339 text), anything else refused (an int is no int64);
\* field.Set panics when the field is no time
setTimestamp(ftype, value) ==
    LET t == IF value.t = "time" THEN value.tm ELSE ParseRFC3339(value.txt) IN
    IF value.t \notin {"time", "string"}
    THEN [err |-> <<"unsupported timestamp type">>, c |-> Zero(ftype)]
    ELSE IF Elem(ftype) # "time"
    THEN [err |-> <<"panic: reflect.Set">>, c |-> Zero(ftype)]
    ELSE [err |-> Nil, c |-> IF ftype = "*time" THEN <<t>> ELSE t]

\* setValue: nil sets the zero value of the field's type, else by hint
setValue(ftype, value, hint) ==
    IF value.t = "nil"
    THEN [err |-> Nil, c |-> Zero(ftype)]
    ELSE IF hint = "timestamp"
    THEN setTimestamp(ftype, value)
    ELSE setDirect(ftype, value)

\* (mutant) generated mappings are extracted like the others
SkipGenerated_Never(mapping) == FALSE

\* `if mapping.Generated { continue }`
SkipGenerated(mapping) == mapping.Generated

\* (mutant) a data field that is missing is treated as one holding nil
Exists_Always(data, field) == TRUE

\* `dataValue, exists := data[mapping.Field]`
Exists(data, field) == field \in DOMAIN data

\* the loop of MapFromObject from mapping i on, data the record so far
RECURSIVE MapFromObjectFrom(_, _, _, _)
MapFromObjectFrom(obj, mappings, i, data) ==
    IF i > Len(mappings)
    THEN [err |-> Nil, data |-> data]
    ELSE LET mapping == mappings[i] IN
         IF SkipGenerated(mapping)
         THEN MapFromObjectFrom(obj, mappings, i + 1, data)
         ELSE IF mapping.Object \notin StructFields
         THEN [err |-> <<"field not found in object">>, data |-> EmptyMap]
         ELSE LET g == getValue(FieldTypes[mapping.Object],
                                obj.f[mapping.Object], mapping.Type)
              IN
              IF g.err # Nil
              THEN [err |-> Wrap("failed to get field", g.err), data |-> EmptyMap]
              ELSE MapFromObjectFrom(obj, mappings, i + 1,
                       [x \in DOMAIN data \cup {mapping.Field} |->
                           IF x = mapping.Field THEN g.v ELSE data[x]])

\* PropertyMapper.MapFromObject, on the fields
PropertyMapper_MapFromObject(obj, mappings) ==
    IF obj.k # "struct"
    THEN [err |-> <<"object must be a struct or pointer to struct">>,
          data |-> EmptyMap]
    ELSE MapFromObjectFrom(obj, mappings, 1, EmptyMap)

\* the loop of MapToObject from mapping i on, target the struct so far; the
\* fields written before an error stay written
RECURSIVE MapToObjectFrom(_, _, _, _)
MapToObjectFrom(data, target, mappings, i) ==
    IF i > Len(mappings)
    THEN [err |-> Nil, target |-> target]
    ELSE LET mapping == mappings[i] IN
         IF ~Exists(data, mapping.Field)
         THEN MapToObjectFrom(data, target, mappings, i + 1)
         ELSE IF mapping.Object \notin StructFields
         THEN [err |-> <<"field not found in target struct">>, target |-> target]
         ELSE LET dataValue == IF mapping.Field \in DOMAIN data
                               THEN data[mapping.Field] ELSE NilV
                  s == setValue(FieldTypes[mapping.Object], dataValue, mapping.Type)
              IN
              IF s.err # Nil
              THEN [err |-> Wrap("failed to set field", s.err), target |-> target]
              ELSE MapToObjectFrom(data,
                       [target EXCEPT !.f[mapping.Object] = s.c], mappings, i + 1)

\* PropertyMapper.MapToObject, on the fields; target is what the pointer
\* passed points at
PropertyMapper_MapToObject(data, target, mappings) ==
    IF target.k # "struct"
    THEN [err |-> <<"target must be a pointer to struct">>, target |-> target]
    ELSE MapToObjectFrom(data, target, mappings, 1)

\* the mapping lists tried: each field of the struct unmapped or mapped in
\* one of the ways listed (UpdatedAt also from the data field CreatedAt is
\* mapped to), and possibly a mapping of a field the struct does not have
Optional(ms) == {<< >>} \cup {<<x>> : x \in ms}
MappingLists ==
    {a \o b \o c \o d :
        a \in Optional({TypedPropertyMap("ID", "id", "", g) : g \in BOOLEAN}),
        b \in Optional({TypedPropertyMap("CreatedAt", "created_at", "", FALSE),
                        TypedPropertyMap("CreatedAt", "created_at", "timestamp", FALSE),
                        TypedPropertyMap("CreatedAt", "created_at", "", TRUE)}),
        c \in Optional({TypedPropertyMap("UpdatedAt", "updated_at", "", FALSE),
                        TypedPropertyMap("UpdatedAt", "updated_at", "timestamp", FALSE),
                        TypedPropertyMap("UpdatedAt", "updated_at", "", TRUE),
                        TypedPropertyMap("UpdatedAt", "created_at", "", FALSE)}),
        d \in Optional({TypedPropertyMap("Missing", "missing", "", FALSE)})}

\* the objects mapped from, and the targets mapped into
Structs ==
    {Struct(id, created, updated) :
        id \in {0, 7}, created \in Times,
        updated \in {<< >>} \cup {<<x>> : x \in Times}}
Targets == {ZeroStruct, Struct(7, Time(5, 2, 0), <<Time(5, 0, 0)>>), MapObject}

\* the records mapped from: each data field absent, nil, or holding a value
DataFields == {"id", "created_at", "updated_at"}
DataValues(field) ==
    IF field = "id"
    THEN {NilV, IntV(7), TimeV(Time(5, 0, 0))}
    ELSE {NilV, TimeV(Time(5, 2, 0)), StrV(Text(7, 2))}
DataRecords ==
    UNION {{d \in [present -> UNION {DataValues(x) : x \in DataFields}] :
               \A x \in present : d[x] \in DataValues(x)} :
           present \in SUBSET DataFields}

\* pm: stage the call last made ("from" MapFromObject(obj, mappings), "round"
\* MapToObject of its record into a zero value, "to" MapToObject(data, prior,
\* mappings)), and what it returned: err, data, target
PMState(stage, obj, mappings, data, prior, err, target) ==
    [stage |-> stage, obj |-> obj, mappings |-> mappings, data |-> data,
     prior |-> prior, err |-> err, target |-> target]

InitProperty ==
    /\ EmptyRegistry
    /\ pc = [t \in Threads |-> "idle"]
    /\ call = [t \in Threads |-> NoCall]
    /\ ops = 0
    /\ ev = NoEv
    /\ configs = [n \in Namespaces |-> NoCfg]
    /\ mapper = "none"
    /\ mapperClosed = FALSE
    /\ files = NoFiles
    /\ pm = NoPM

\* one call of MapFromObject
PM_MapFromObject(obj, mappings) ==
    /\ pm.stage = "start"
    /\ LET r == PropertyMapper_MapFromObject(obj, mappings) IN
       pm' = PMState("from", obj, mappings, r.data, ZeroStruct, r.err, ZeroStruct)
    /\ UNCHANGED <<factories, instances, mu, adapters, pc, call, ops, ev,
                   configs, mapper, mapperClosed, files>>

\* the record MapFromObject returned is mapped into a new zero value
PM_RoundTrip ==
    /\ pm.stage = "from" /\ pm.err = Nil
    /\ LET r == PropertyMapper_MapToObject(pm.data, ZeroStruct, pm.mappings) IN
       pm' = [pm EXCEPT !.stage = "round", !.err = r.err, !.target = r.target]
    /\ UNCHANGED <<factories, instances, mu, adapters, pc, call, ops, ev,
                   configs, mapper, mapperClosed, files>>

\* one call of MapToObject
PM_MapToObject(data, prior, mappings) ==
    /\ pm.stage = "start"
    /\ LET r == PropertyMapper_MapToObject(data, prior, mappings) IN
       pm' = PMState("to", ZeroStruct, mappings, data, prior, r.err, r.target)
    /\ UNCHANGED <<factories, instances, mu, adapters, pc, call, ops, ev,
                   configs, mapper, mapperClosed, files>>

NextProperty ==
    \/ \E obj \in Structs \cup {MapObject}, mappings \in MappingLists :
           PM_MapFromObject(obj, mappings)
    \/ PM_RoundTrip
    \/ \E data \in DataRecords, prior \in Targets, mappings \in MappingLists :
           PM_MapToObject(data, prior, mappings)

SpecProperty == InitProperty /\ [][NextProperty]_vars

\* the registry used on its own, by concurrent callers
Next ==
    \/ \E t \in Threads, a \in AdapterTypes, f \in FactoryIDs :
           Register(t, a, f)
    \/ \E t \in Threads, src \in SourceDescs, sid \in SourceIDs :
           GetAdapterCall(t, src, sid)
    \/ \E t \in Threads : GA_RLock(t)
    \/ \E t \in Threads : GA_Lock(t)
    \/ \E t \in Threads : GA_Connect(t)
    \/ \E t \in Threads : Close(t)
    \/ \E t \in Threads, sid \in SourceIDs :
           CloseInstance(t, sid)
    \/ \E t \in Threads, sid \in SourceIDs :
           GetInstance(t, sid)
    \/ \E t \in Threads : ListInstances(t)

Spec == Init /\ [][Next]_vars

\* ------------------------------------------------------------ registry claims
\* factory and Connect invocations so far for a sourceID
FactoryCalls(s) == Cardinality({i \in DOMAIN adapters : adapters[i].sid = s})
ConnectCalls(s) ==
    Cardinality({i \in DOMAIN adapters :
                    adapters[i].sid = s /\ adapters[i].conn # "unbuilt"})

\* a Close or CloseInstance has found the sourceID cached
Evicted(s) == \E i \in DOMAIN adapters : adapters[i].sid = s /\ adapters[i].closes > 0

C2_OtherSourceNotDelayed ==
    \A a \in Threads, b \in Threads :
        (/\ pc[a] = "ga_connect"
         /\ pc[b] \in {"ga_rlock", "ga_lock"}
         /\ call[a].sid # call[b].sid)
        => ENABLED (GA_RLock(b) \/ GA_Lock(b))

\* C3: every cached instance, and every instance GetAdapter, GetInstance or
\* ListInstances hands out, has completed Connect successfully; a GetAdapter
\* call that fails returns no instance and leaves the cache as it was.
C3_OnlyConnectedCached ==
    /\ \A s \in SourceIDs :
           instances[s] # 0 => adapters[instances[s]].conn = "ok"
    /\ (ev.op \in {"GetAdapter", "GetInstance"} /\ ev.inst # 0) =>
           adapters[ev.inst].conn = "ok"
    /\ ev.op = "ListInstances" =>
           \A s \in ev.ids : ev.pre[s] # 0 /\ adapters[ev.pre[s]].conn = "ok"
    /\ (ev.op = "GetAdapter" /\ ev.err # Nil) =>
           ev.inst = 0 /\ instances = ev.pre

\* a Connect failure was reported while another instance stayed cached
C3_Witness ==
    /\ ev.op = "GetAdapter" /\ ev.via = "connecterr"
    /\ adapters[Len(adapters)].conn = "failed"
    /\ CachedIDs(instances) # {}

\* C4: the registry invokes Close at most once on any adapter instance.
C4_CloseAtMostOnce ==
    \A i \in DOMAIN adapters : adapters[i].closes <= 1

\* C5: CloseInstance on a cached sourceID invokes the instance's Close and
\* leaves the sourceID out of the cache whatever Close returned; on a
\* sourceID that is not cached it fails and changes nothing.
C5_CloseInstanceEvicts ==
    ev.op = "CloseInstance" =>
        IF ev.pre[ev.sid] # 0
        THEN ev.closed = {ev.pre[ev.sid]} /\ instances[ev.sid] = 0
        ELSE ev.err # Nil /\ ev.closed = {} /\ instances = ev.pre

\* C6: registry Close invokes Close on every cached instance, reports
\* exactly the instances whose Close failed (nil when none did) and leaves
\* the cache empty.
C6_CloseAllAggregates ==
    ev.op = "Close" =>
        /\ ev.closed = Cached(ev.pre)
        /\ ev.ids = {s \in CachedIDs(ev.pre) : ~adapters[ev.pre[s]].closed}
        /\ (ev.err = Nil) <=> (ev.ids = {})
        /\ instances = NoInstances

\* Close ran over two cached instances of which exactly one failed to close
C6_Witness ==
    /\ ev.op = "Close"
    /\ Cardinality(ev.closed) = 2
    /\ Cardinality(ev.ids) = 1
    /\ ev.err # Nil

\* -------------------------------------------------------------- mapper claims
\* C7: a verb call that begins after Mapper.Close has returned fails, and
\* where it reached an adapter's data operation that adapter is not one the
\* registry has closed.
C7_ClosedMapperRejectsVerbs ==
    (ev.op \in Verbs /\ ev.late) =>
        /\ ev.err # Nil
        /\ ev.called => adapters[ev.inst].closes = 0

\* what resolveSource returned is the source called name, or the failure to
\* find it
Selected(cfg, name) ==
    IF name \in DOMAIN cfg.Sources
    THEN ev.err = Nil /\ ev.sid = name /\ ev.src = cfg.Sources[name]
    ELSE ev.err # Nil /\ ev.sid = "" /\ ev.src = NoSrc

Dangling(cfg) == cfg # NoCfg /\ validateSourceReferences(cfg) # Nil

\* C9: a configuration that refers to a source it does not define is
\* rejected when it is loaded, so that no verb call gets as far as source
\* resolution on such a configuration.
C9_DanglingRejectedAtLoad ==
    (ev.op \in Verbs /\ ev.via \notin {"nomapping", "noop"}) =>
        ~Dangling(configs[ev.ns])

\* C10: Fetch, when the adapter's Fetch returned no error and no record,
\* returns adapter.ErrNotFound itself, not an error wrapping it.
C10_FetchEmptyIsNotFound ==
    (/\ ev.op = "Fetch" /\ ev.called
     /\ ev.out.err = Nil /\ ev.out.n = 0)
    => ev.err = ErrNotFound

\* a Fetch whose adapter returned an empty list without error
C10_Witness ==
    /\ ev.op = "Fetch" /\ ev.called
    /\ ev.out.err = Nil /\ ev.out.n = 0
    /\ ev.via = "notfound"
    /\ adapters[ev.inst].conn = "ok"

\* the verbs that write
WriteVerbs == {"Insert", "Update", "Delete"}

\* C11: FetchMulti, when the adapter returned no error and no record,
\* returns nil and leaves the caller's output collection with length 0.
C11_FetchMultiEmptyIsEmpty ==
    (/\ ev.op = "FetchMulti" /\ ev.called
     /\ ev.out.err = Nil /\ ev.out.n = 0)
    => ev.err = Nil /\ Len(ev.data.result) = 0

\* errors.Is(err, target): target is err or is reached by unwrapping it
errorsIs(err, target) ==
    \E i \in 1..Len(err) : SubSeq(err, i, Len(err)) = target

\* C12: when the adapter's Update or Delete returned adapter.ErrNotFound,
\* the verb's error satisfies errors.Is(err, adapter.ErrNotFound); when it
\* returned another failure, the verb's error does not.
C12_NotFoundRecognisable ==
    (ev.op \in {"Update", "Delete"} /\ ev.called) =>
        /\ ev.out.err = ErrNotFound => errorsIs(ev.err, ErrNotFound)
        /\ ev.out.err = AdapterFailure =>
               ev.err # Nil /\ ~errorsIs(ev.err, ErrNotFound)

\* an Update whose adapter reported that no record matched
C12_Witness ==
    /\ ev.op = "Update" /\ ev.called
    /\ ev.out.err = ErrNotFound
    /\ errorsIs(ev.err, ErrNotFound)
    /\ Len(ev.data.sent) = 1

\* C13: the error a verb returns when the adapter's data operation failed
\* is the very error the adapter returned.
C13_AdapterErrorUnchanged ==
    (ev.op \in Verbs /\ ev.called /\ ev.out.err # Nil) =>
        ev.err = ev.out.err

\* C14: Fetch, when the filesystem adapter found no file for the record,
\* returns adapter.ErrNotFound itself.
C14_FilesystemMissingIsNotFound ==
    (ev.op = "Fetch" /\ ev.called /\ ev.out = fsFetch(FALSE)) =>
        ev.err = ErrNotFound

\* C15: a verb call calls GetAdapter at most once and the adapter's data
\* operation at most once; a failure of either is what the verb returns,
\* and after a failed acquisition no data operation is invoked.
C15_NoRetry ==
    ev.op \in Verbs =>
        /\ ev.tries <= 1 /\ ev.calls <= 1
        /\ ev.called <=> (ev.calls = 1)
        /\ ev.via = "getadapter" => (ev.err # Nil /\ ev.calls = 0)
        /\ (ev.called /\ ev.out.err # Nil) => ev.err # Nil

\* a verb whose adapter failed to connect returned after that one attempt
C15_Witness ==
    /\ ev.op \in Verbs /\ ev.via = "getadapter"
    /\ ev.tries = 1 /\ ev.calls = 0
    /\ Len(adapters) = 1 /\ adapters[1].conn = "failed"

\* C16: a writing verb whose adapter call succeeded has executed every
\* after-action configured on its operation, in order; one whose adapter
\* call failed has executed none.
C16_AfterActionsRun ==
    (ev.op \in WriteVerbs /\ ev.called) =>
        \A m \in MappingIDs :
            LET opConfig == configs[ev.ns].Mappings[m].Operations[OpName(ev.op)] IN
            ev.data.ran = IF ev.out.err = Nil THEN opConfig.After ELSE << >>

\* C17: Execute on an action that the mapping configures invokes the
\* adapter's Execute and returns its result.
C17_ExecuteRunsAction ==
    (ev.op = "Execute" /\ configs[ev.ns] # NoCfg) =>
        \A m \in MappingIDs :
            ev.action \in DOMAIN configs[ev.ns].Mappings[m].Actions =>
                ev.err = Nil /\ ev.called

\* C18: the list a writing verb hands to the adapter has one element per
\* item of its argument, in the argument's order.
C18_CardinalityPreserved ==
    (ev.op \in WriteVerbs /\ ev.called) =>
        /\ Len(ev.data.sent) = Len(ev.input.items)
        /\ \A i \in DOMAIN ev.data.sent : ev.data.sent[i].id = ev.input.items[i].id

\* the data fields of a list of mappings
FieldsOf(mappings) == {mappings[j].Field : j \in DOMAIN mappings}

\* C19: every record Update hands to the adapter holds the field of every
\* property that is not generated, of every identifier and of every
\* condition of the update operation.
C19_UpdateSendsFullFieldSet ==
    (ev.op = "Update" /\ ev.called) =>
        \A m \in MappingIDs :
            LET opConfig == configs[ev.ns].Mappings[m].Operations["update"] IN
            \A i \in DOMAIN ev.data.sent :
                /\ {f \in FieldsOf(opConfig.Properties) :
                       \E j \in DOMAIN opConfig.Properties :
                          /\ opConfig.Properties[j].Field = f
                          /\ ~opConfig.Properties[j].Generated}
                      \subseteq ev.data.sent[i].fields
                /\ FieldsOf(opConfig.Identifier) \subseteq ev.data.sent[i].fields
                /\ FieldsOf(opConfig.Condition) \subseteq ev.data.sent[i].fields

\* C20: FetchMulti, when the adapter returned records that are maps, leaves
\* in the caller's output collection one element per record in the
\* adapter's order, whether the collection is a slice of maps or of structs.
C20_FetchMultiMapsEveryRecord ==
    (/\ ev.op = "FetchMulti" /\ ev.called
     /\ ev.out.err = Nil /\ ev.out.n > 0 /\ ev.out.rec = "ok")
    => /\ ev.err = Nil
       /\ Len(ev.data.result) = ev.out.n
       /\ \A i \in DOMAIN ev.data.result : ev.data.result[i] = Item("ok", i)

\* C30: adapter instances are never shared across source identifiers: the
\* instances cached for two different sourceIDs are different ones, the
\* instance cached for (and the one GetAdapter returns for) a sourceID was
\* made by a factory call for that very sourceID and connected as such, even
\* when the other sourceID names the same Source descriptor.
C30_InstancesNotShared ==
    /\ \A s1 \in SourceIDs : \A s2 \in SourceIDs \ {s1} :
          instances[s1] # 0 /\ instances[s2] # 0
              => instances[s1] # instances[s2]
    /\ \A s \in CachedIDs(instances) :
          /\ adapters[instances[s]].sid = s
          /\ adapters[instances[s]].conn = "ok"
    /\ (ev.op = "GetAdapter" /\ ev.inst # 0)
          => /\ adapters[ev.inst].sid = ev.sid
             /\ adapters[ev.inst].conn = "ok"

\* two sourceIDs naming one Source descriptor both hold an instance, the
\* second of them just returned by GetAdapter
C30_Witness ==
    /\ ev.op = "GetAdapter" /\ ev.via = "new" /\ ev.inst # 0
    /\ \E s \in SourceIDs \ {ev.sid} :
          /\ instances[s] # 0 /\ instances[ev.sid] = ev.inst
          /\ adapters[instances[s]].src = adapters[ev.inst].src

\* ----------------------------------------------------- property mapper claims
\* mapping m applies a coercion that loses part of the field of obj it
\* reads: the timestamp text is cut to whole seconds
LossyCoercion(obj, m) ==
    /\ m.Type = "timestamp" /\ m.Object \in StructFields
    /\ LET c == obj.f[m.Object] IN
       IF FieldTypes[m.Object] = "*time"
       THEN Len(c) = 1 /\ c[1].nsec # 0
       ELSE FieldTypes[m.Object] = "time" /\ c.nsec # 0

\* target has, in every field the mappings name, what obj has there
Reproduced(obj, target, mappings) ==
    \A i \in DOMAIN mappings :
        target.f[mappings[i].Object] = obj.f[mappings[i].Object]

\* no two mappings use one data field
DistinctFields(mappings) ==
    \A i \in DOMAIN mappings : \A j \in DOMAIN mappings :
        mappings[i].Field = mappings[j].Field => i = j

Holds(ftype, c, v) ==
    IF v.t = "nil"
    THEN IF ftype = "int" THEN c = 0
         ELSE IF ftype = "time" THEN c = ZeroTime
         ELSE c = << >>
    ELSE IF v.t = "int"
    THEN ftype = "int" /\ c = v.n
    ELSE LET t == IF v.t = "time" THEN v.tm
                  ELSE Time(v.txt.wall - v.txt.off, v.txt.off, 0)
         IN IF ftype = "*time" THEN c = <<t>>
            ELSE ftype = "time" /\ c = t

\* C26: the record MapFromObject produces holds the data fields of the
\* mappings that are not generated and no others, so a generated mapping
\* contributes nothing to it; and MapToObject writes the data field of a
\* generated mapping into the object like any other.
C26_GeneratedOnlyRead ==
    /\ (pm.stage = "from" /\ pm.err = Nil)
          => DOMAIN pm.data =
                {pm.mappings[i].Field :
                    i \in {x \in DOMAIN pm.mappings : ~pm.mappings[x].Generated}}
    /\ (pm.stage = "to" /\ pm.err = Nil)
          => \A i \in DOMAIN pm.mappings :
                (pm.mappings[i].Generated /\ pm.mappings[i].Field \in DOMAIN pm.data)
                    => Holds(FieldTypes[pm.mappings[i].Object],
                             pm.target.f[pm.mappings[i].Object],
                             pm.data[pm.mappings[i].Field])

\* a struct whose ID is set, mapped with ID generated and another field not:
\* the record has the other field and no id
C26_Witness ==
    /\ pm.stage = "from" /\ pm.err = Nil
    /\ pm.obj.f.ID = 7
    /\ Len(pm.mappings) = 2
    /\ pm.mappings[1].Object = "ID" /\ pm.mappings[1].Generated
    /\ ~pm.mappings[2].Generated
    /\ DOMAIN pm.data = {pm.mappings[2].Field}

\* C27: when MapToObject succeeds, a field whose data field holds nil is 0
\* or the zero time if it is no pointer, and nil (not a pointer to a zero
\* value) if it is a pointer, whatever it held before.
C27_NullSetsZeroOrNil ==
    (pm.stage = "to" /\ pm.err = Nil)
        => \A i \in DOMAIN pm.mappings :
              (/\ pm.mappings[i].Field \in DOMAIN pm.data
               /\ pm.data[pm.mappings[i].Field].t = "nil")
                  => LET ftype == FieldTypes[pm.mappings[i].Object]
                         c == pm.target.f[pm.mappings[i].Object]
                     IN IF ftype = "*time" THEN c = << >>
                        ELSE IF ftype = "time" THEN c = ZeroTime
                        ELSE c = 0

\* nil for a plain field and for a pointer field that both held something
C27_Witness ==
    /\ pm.stage = "to" /\ pm.err = Nil
    /\ pm.prior.f.ID = 7 /\ pm.prior.f.UpdatedAt # << >>
    /\ \E i \in DOMAIN pm.mappings : \E j \in DOMAIN pm.mappings :
          /\ pm.mappings[i].Object = "ID" /\ pm.mappings[j].Object = "UpdatedAt"
          /\ pm.mappings[i].Field \in DOMAIN pm.data
          /\ pm.mappings[j].Field \in DOMAIN pm.data
          /\ pm.data[pm.mappings[i].Field] = NilV
          /\ pm.data[pm.mappings[j].Field] = NilV
    /\ pm.target.f.ID = 0 /\ pm.target.f.UpdatedAt = << >>

\* the record value v can be set on the field mapping m names
Acceptable(m, v) ==
    /\ m.Object \in StructFields
    /\ \/ v.t = "nil"
       \/ m.Type = "" /\ v.t = Elem(FieldTypes[m.Object])
       \/ /\ m.Type = "timestamp" /\ v.t \in {"time", "string"}
          /\ Elem(FieldTypes[m.Object]) = "time"

\* C28: MapToObject leaves the field of a mapping whose data field is absent
\* as it was, and absent data fields never make it fail: if every data field
\* that is present can be set, it succeeds and has written each of them.
C28_MissingFieldsSkipped ==
    (pm.stage = "to" /\ pm.prior.k = "struct")
        => /\ \A i \in DOMAIN pm.mappings :
                 (/\ pm.mappings[i].Field \notin DOMAIN pm.data
                  /\ pm.mappings[i].Object \in StructFields)
                     => pm.target.f[pm.mappings[i].Object]
                            = pm.prior.f[pm.mappings[i].Object]
           /\ (\A i \in DOMAIN pm.mappings :
                  pm.mappings[i].Field \in DOMAIN pm.data
                      => Acceptable(pm.mappings[i], pm.data[pm.mappings[i].Field]))
                 => /\ pm.err = Nil
                    /\ \A i \in DOMAIN pm.mappings :
                          pm.mappings[i].Field \in DOMAIN pm.data
                              => Holds(FieldTypes[pm.mappings[i].Object],
                                       pm.target.f[pm.mappings[i].Object],
                                       pm.data[pm.mappings[i].Field])

\* a record with id and without updated_at, both mapped, into a struct whose
\* fields are set: ID is overwritten, UpdatedAt kept
C28_Witness ==
    /\ pm.stage = "to" /\ pm.err = Nil
    /\ DOMAIN pm.data = {"id"} /\ pm.data["id"] = IntV(7)
    /\ pm.prior = [ZeroStruct EXCEPT !.f.UpdatedAt = <<Time(5, 0, 0)>>,
                                     !.f.CreatedAt = Time(5, 2, 0), !.f.ID = 7]
    /\ \E i \in DOMAIN pm.mappings : \E j \in DOMAIN pm.mappings :
          /\ pm.mappings[i].Object = "ID" /\ pm.mappings[i].Field = "id"
          /\ pm.mappings[j].Object = "UpdatedAt"
          /\ pm.mappings[j].Field = "updated_at"
    /\ pm.target.f.ID = 7 /\ pm.target.f.UpdatedAt = <<Time(5, 0, 0)>>

\* C29: the text MapFromObject emits for a field under the timestamp
\* coercion is in UTC: it carries offset 0, whatever zone the time was in.
C29_TimestampInUTC ==
    (pm.stage = "from" /\ pm.err = Nil)
        => \A i \in DOMAIN pm.mappings :
              (/\ pm.mappings[i].Type = "timestamp"
               /\ pm.mappings[i].Field \in DOMAIN pm.data
               /\ pm.data[pm.mappings[i].Field].t = "string")
                  => pm.data[pm.mappings[i].Field].txt.off = 0

\* ------------------------------------------------------------- store claims
\* the record ids an argument names
InputIDs(input) == {input.items[i].id : i \in DOMAIN input.items}

\* C21: read-your-writes through the engine, for struct and for map objects
\* and targets alike: a Fetch of a record id whose file exists (written by
\* an Insert or Update that reached the adapter) returns no error and hands
\* its caller the values that file holds; and after an Insert or Update has
\* returned nil the file of each record it sent holds that record's values.
C21_ReadYourWrites ==
    /\ (ev.op = "Fetch" /\ ev.called /\ ev.store[ev.key] # NoFile)
          => ev.err = Nil /\ ev.data.result = <<ev.store[ev.key]>>
    /\ (ev.op \in {"Insert", "Update"} /\ ev.err = Nil)
          => \A i \in DOMAIN ev.data.sent :
                files[ev.data.sent[i].id] =
                    Written(ev.data.sent[i],
                            IF ev.op = "Insert" THEN "inserted" ELSE "updated")

\* C22: an Insert, Update or Delete that returns an error has created,
\* modified and removed nothing: the directory is as the call found it.
C22_BulkAllOrNothing ==
    (ev.op \in {"Insert", "Update", "Delete"} /\ ev.err # Nil)
        => files = ev.store

\* C23: an Insert that has its adapter and names record ids no file exists
\* for (no other caller uses them) returns nil, the file of each of its
\* records then exists, and no file that existed before it is lost or
\* altered - for every object the callers pass, the maps of the integration
\* test included.
C23_ConcurrentInsertsSucceed ==
    (/\ ev.op = "Insert" /\ ev.input # NoInput
     /\ \A i \in InputIDs(ev.input) : ev.store[i] = NoFile)
        => /\ ev.err = Nil
           /\ \A i \in InputIDs(ev.input) : files[i] # NoFile
           /\ \A i \in RecordIDs : ev.store[i] # NoFile => files[i] = ev.store[i]

\* C24: no part of an error returned to a caller is the connection string
\* of a source.
C24_NoConnectionInErrors ==
    \A i \in DOMAIN ev.err : ev.err[i] \notin Connections

\* --------------------------------------------------------- closing claims
\* C31: re-registering an adapter type overwrites its factory: when Register
\* has returned the type's factory is the one just passed, and an instance is
\* constructed by the factory registered for its source's type at that time
\* (the lock GetAdapter holds keeps Register out until Connect has returned),
\* so after Register(tag, f1), Register(tag, f2) the next one is built by f2.
C31_LastRegistrationWins ==
    /\ ev.op = "Register" => factories[ev.adapter] = ev.factory
    /\ \A t \in Threads :
          pc[t] = "ga_connect"
              => adapters[call[t].inst].by = factories[call[t].src.Adapter]
    /\ (ev.op = "GetAdapter" /\ ev.via = "factoryerr")
          => adapters[Len(adapters)].by = factories[adapters[Len(adapters)].src.Adapter]

\* an instance built by f1 exists, the type has since been registered again
\* with f2, and the instance now being connected was built by f2
C31_Witness ==
    \E t \in Threads :
        /\ pc[t] = "ga_connect"
        /\ adapters[call[t].inst].by = "f2"
        /\ \E i \in DOMAIN adapters :
              /\ adapters[i].by = "f1"
              /\ adapters[i].src.Adapter = call[t].src.Adapter

C35_InstanceOfResolvedSource ==
    (ev.op \in Verbs /\ ev.called /\ ev.inst # 0)
        => adapters[ev.inst].src = ev.src

\* C36: no use-after-close: when a verb's adapter data operation ran, the
\* registry had not invoked Close on the instance it ran on.
C36_NoUseAfterClose ==
    (ev.op \in Verbs /\ ev.called /\ ev.inst # 0)
        => adapters[ev.inst].closes = 0

\* C38: a verb that fails because its input cannot be normalized or mapped
\* has invoked no adapter operation and has not called GetAdapter, so no
\* adapter instance was constructed, connected or cached for it.
C38_BadInputNoSideEffect ==
    ev.via = "convert" => ~ev.called /\ ev.tries = 0 /\ ev.inst = 0

\* C34: a filesystem Insert of a record whose target file already exists
\* fails with an error - "file already exists" when the record is the one
\* the call sent and its path resolves - and leaves that file as it was.
C34_InsertExistingFails ==
    (ev.op = "Insert" /\ ev.called)
        => \A i \in DOMAIN ev.data.sent :
              LET obj == ev.data.sent[i] IN
              ev.store[obj.id] # NoFile
                 => /\ ev.out.err # Nil /\ ev.err # Nil
                    /\ files[obj.id] = ev.store[obj.id]
                    /\ (i = 1 /\ resolvePath(obj.fields) = Nil)
                          => ev.out.err = <<"file already exists">>

C34_Witness ==
    /\ ev.op = "Insert" /\ ev.called /\ Len(ev.data.sent) = 1
    /\ ev.store[ev.data.sent[1].id] # NoFile
    /\ ev.store[ev.data.sent[1].id].val = "inserted"
    /\ ev.err = <<"insert failed", "file already exists">>
    /\ ev.out.err = <<"file already exists">>
    /\ files = ev.store

\* C37: when the operation has an override, or else a fallback chain, and
\* the source that rule names (the override, or else the first chain entry)
\* is not among the configuration's sources, resolveSource fails with the
\* source-not-found error and returns no source - also when a lower rule
\* (a later chain entry, the mapping's default) names a source that exists.
C37_NoFallThrough ==
    ev.op = "resolveSource"
        => LET cfg == configs[ev.ns]
               opConfig == cfg.Mappings["m"].Operations[ev.via]
               named == IF opConfig.Source # "" THEN opConfig.Source
                        ELSE opConfig.Sources[1]
           IN (/\ opConfig.Source # "" \/ Len(opConfig.Sources) > 0
               /\ named \notin DOMAIN cfg.Sources)
                 => /\ ev.err = <<"source not found">>
                    /\ ev.sid = "" /\ ev.src = NoSrc

C37_Witness ==
    /\ ev.op = "resolveSource" /\ ev.err = <<"source not found">>
    /\ LET cfg == configs[ev.ns]
           mapping == cfg.Mappings["m"]
           opConfig == mapping.Operations[ev.via]
       IN /\ opConfig.Source = "" /\ Len(opConfig.Sources) = 2
          /\ opConfig.Sources[1] \notin DOMAIN cfg.Sources
          /\ opConfig.Sources[2] \in DOMAIN cfg.Sources
          /\ mapping.Source \in DOMAIN cfg.Sources

\* C39: when MapToObject returns an error the target is as it was before the
\* call: no field mapped before the failing mapping remains written.
C39_FailedMapToObjectLeavesTarget ==
    (pm.stage = "to" /\ pm.err # Nil) => pm.target = pm.prior

====
